---------------------------- MODULE Spec2Model ----------------------------
(***************************************************************************)
(* A model of the deep-search demo front-ends: the Streamlit application   *)
(* (src/app.py) and the console script (src/app_console.py).               *)
(*                                                                         *)
(* Text is modelled as a sequence of characters, one TLA+ string per code  *)
(* point, so that len(), concatenation, splitlines() and ljust() are       *)
(* computed on it as Python computes them. A character outside ASCII is    *)
(* written as a token in angle brackets that stands for that single code   *)
(* point.                                                                  *)
(*                                                                         *)
(* A Python value is a tagged record:                                      *)
(*    None   [t |-> "none"]                                                *)
(*    str    [t |-> "str",  s |-> <<characters>>]                          *)
(*    int    [t |-> "int",  n |-> natural number]                          *)
(*    dict   [t |-> "dict", entries |-> <<[k |-> key text, v |-> value]>>] *)
(*           (insertion order kept, keys are text and pairwise distinct)   *)
(*    list   [t |-> "list", items |-> <<values>>]                          *)
(***************************************************************************)
EXTENDS Integers, Sequences, FiniteSets, TLC

VARIABLES
    frontend,       \* which program runs: "app" (streamlit) or "console"
    env,            \* os.environ, a function from variable name to text
    pc,             \* position of the running script
    session_state,  \* st.session_state, a function from key to value
    page,           \* elements the current script run has put on the page
    status,         \* the st.status widget of deep_search
    agent,          \* the Agent built for the current task
    solve_calls,    \* the calls of agent.solve_task, in call order: the
                    \* task, what the agent emitted, how the call ended
    stdout,         \* what was printed on the terminal
    now,            \* the wall clock, in seconds since midnight
    fs,             \* directories created on the filesystem
    frame,          \* local variables of the running main() / script
    calls           \* the direct calls of functions: arguments and outcome

vars == <<frontend, env, pc, session_state, page, status, agent, solve_calls,
          stdout, now, fs, frame, calls>>

(* F applied to the value of v: v is evaluated once, however often F uses  *)
(* its argument.                                                           *)
Bind(v, F(_)) == CHOOSE r \in {F(x) : x \in {v}} : TRUE

---------------------------------------------------------------------------
(* Characters outside ASCII, one token per code point.                     *)

DIAMOND == "<diamond>"
ARROW == "<arrow>"
BULLET == "<bullet>"
TARGET == "<target>"
INFOSIGN == "<info>"
HBAR == "<hbar>"
VBAR == "<vbar>"
TOPLEFT == "<topleft>"
TOPRIGHT == "<topright>"
BOTTOMLEFT == "<bottomleft>"
BOTTOMRIGHT == "<bottomright>"
NL == "\n"
CR == "\r"

(* Event names, message names, event types and payload keys, as text.      *)

task_complete == <<"t", "a", "s", "k", "_", "c", "o", "m", "p", "l", "e", "t", "e">>
task_think_start == <<"t", "a", "s", "k", "_", "t", "h", "i", "n", "k", "_", "s", "t", "a", "r", "t">>
task_think_end == <<"t", "a", "s", "k", "_", "t", "h", "i", "n", "k", "_", "e", "n", "d">>
tool_execution_start == <<"t", "o", "o", "l", "_", "e", "x", "e", "c", "u", "t", "i", "o", "n", "_", "s", "t", "a", "r", "t">>
tool_execution_end == <<"t", "o", "o", "l", "_", "e", "x", "e", "c", "u", "t", "i", "o", "n", "_", "e", "n", "d">>
error_max_iterations_reached == <<"e", "r", "r", "o", "r", "_", "m", "a", "x", "_", "i", "t", "e", "r", "a", "t", "i", "o", "n", "s", "_", "r", "e", "a", "c", "h", "e", "d">>
memory_full == <<"m", "e", "m", "o", "r", "y", "_", "f", "u", "l", "l">>
memory_compacted == <<"m", "e", "m", "o", "r", "y", "_", "c", "o", "m", "p", "a", "c", "t", "e", "d">>
memory_summary == <<"m", "e", "m", "o", "r", "y", "_", "s", "u", "m", "m", "a", "r", "y">>
stream_chunk == <<"s", "t", "r", "e", "a", "m", "_", "c", "h", "u", "n", "k">>
deep_search_start == <<"d", "e", "e", "p", "_", "s", "e", "a", "r", "c", "h", "_", "s", "t", "a", "r", "t">>
research_completed == <<"r", "e", "s", "e", "a", "r", "c", "h", "_", "c", "o", "m", "p", "l", "e", "t", "e", "d">>
research_failed == <<"r", "e", "s", "e", "a", "r", "c", "h", "_", "f", "a", "i", "l", "e", "d">>
display_results_msg == <<"d", "i", "s", "p", "l", "a", "y", "_", "r", "e", "s", "u", "l", "t", "s">>
info == <<"i", "n", "f", "o">>
thinking == <<"t", "h", "i", "n", "k", "i", "n", "g">>
success == <<"s", "u", "c", "c", "e", "s", "s">>
error == <<"e", "r", "r", "o", "r">>
key_message == <<"m", "e", "s", "s", "a", "g", "e">>
key_tool_name == <<"t", "o", "o", "l", "_", "n", "a", "m", "e">>
key_query == <<"q", "u", "e", "r", "y">>
key_results_dir == <<"r", "e", "s", "u", "l", "t", "s", "_", "d", "i", "r">>
NoEventDataText == <<INFOSIGN, " ", "N", "o", " ", "e", "v", "e", "n", "t", " ", "d", "a", "t", "a">>
ItemsText == <<" ", "I", "t", "e", "m", "s", ":", " ">>
NoneText == <<"N", "o", "n", "e">>
UnknownTool == <<"U", "n", "k", "n", "o", "w", "n", " ", "t", "o", "o", "l">>
ResultsRoot == <<"d", "e", "e", "p", "s", "e", "a", "r", "c", "h", "-", "r", "e", "s", "u", "l", "t", "s", "/">>

---------------------------------------------------------------------------
(* Python values.                                                          *)

None == [t |-> "none"]
StrVal(s) == [t |-> "str", s |-> s]
IntVal(n) == [t |-> "int", n |-> n]
Dict(entries) == [t |-> "dict", entries |-> entries]
List(items) == [t |-> "list", items |-> items]
Entry(k, v) == [k |-> k, v |-> v]

(* bool(value): what `if data:` tests.                                     *)
Truthy(v) ==
    CASE v.t = "none" -> FALSE
      [] v.t = "str"  -> Len(v.s) > 0
      [] v.t = "int"  -> v.n # 0
      [] v.t = "dict" -> Len(v.entries) > 0
      [] v.t = "list" -> Len(v.items) > 0

(* isinstance(value, (dict, list)) *)
IsContainer(v) == v.t \in {"dict", "list"}

(* The decimal digits of a natural number: str(n).                         *)
DigitChar(d) == <<"0", "1", "2", "3", "4", "5", "6", "7", "8", "9">>[d + 1]

RECURSIVE IntText(_)
IntText(n) ==
    IF n < 10 THEN <<DigitChar(n)>>
    ELSE IntText(n \div 10) \o <<DigitChar(n % 10)>>

(* str(value) of a scalar.                                                 *)
PyStr(v) ==
    CASE v.t = "none" -> NoneText
      [] v.t = "str"  -> v.s
      [] v.t = "int"  -> IntText(v.n)

(* " " * n, "=" * n: a negative count gives the empty text.                *)
Repeat(c, n) == [i \in 1..n |-> c]

(* str.splitlines(): the text is cut after each line boundary, the         *)
(* boundary is dropped, "\r\n" counts as one boundary, and a boundary at   *)
(* the very end opens no further line.                                     *)
LineBreaks == {NL, CR}

RECURSIVE LineEnd(_, _)
LineEnd(s, j) ==
    IF j <= Len(s) /\ s[j] \notin LineBreaks THEN LineEnd(s, j + 1) ELSE j

(* Where the line after the boundary at eol starts.                        *)
AfterBreak(s, eol) ==
    IF eol > Len(s) THEN eol
    ELSE IF s[eol] = CR /\ eol < Len(s) /\ s[eol + 1] = NL THEN eol + 2
    ELSE eol + 1

RECURSIVE SplitFrom(_, _)
SplitFrom(s, i) ==
    IF i > Len(s) THEN <<>>
    ELSE Bind(LineEnd(s, i), LAMBDA eol :
            <<SubSeq(s, i, eol - 1)>> \o SplitFrom(s, AfterBreak(s, eol)))

splitlines(s) == SplitFrom(s, 1)

(* str.ljust(width): pads with spaces on the right, never truncates.       *)
ljust(s, width) == s \o Repeat(" ", width - Len(s))

(* sep.join(parts) *)
RECURSIVE join(_, _)
join(sep, parts) ==
    IF Len(parts) = 0 THEN <<>>
    ELSE IF Len(parts) = 1 THEN parts[1]
    ELSE parts[1] \o sep \o join(sep, Tail(parts))

(* max(len(line) for line in lines), of a list that is not empty.          *)
MaxLen(ls) ==
    Bind({Len(ls[i]) : i \in 1..Len(ls)}, LAMBDA lens :
        CHOOSE m \in lens : \A n \in lens : n <= m)

---------------------------------------------------------------------------
(* flatten_event_data: the lines of a payload.                             *)

key_str(key) == <<DIAMOND, " ">> \o key \o <<" ", ARROW, " ">>

(* The lines of one scalar with the prefix on the first line only.         *)
ScalarLines_first_only(prefix, v) ==
    Bind(splitlines(PyStr(v)), LAMBDA subs :
        [i \in 1..Len(subs) |-> IF i = 1 THEN prefix \o subs[i] ELSE subs[i]])

(* The lines of one scalar: every line of its text behind the prefix.      *)
ScalarLines(prefix, v) ==
    Bind(splitlines(PyStr(v)), LAMBDA subs :
        [i \in 1..Len(subs) |-> prefix \o subs[i]])

NestedIndent(indent) == indent + 4

RECURSIVE flatten_event_data(_, _)
RECURSIVE FlattenEntries(_, _)
RECURSIVE FlattenItems(_, _)

FlattenEntries(entries, indent) ==
    IF Len(entries) = 0 THEN <<>>
    ELSE LET spacer == Repeat(" ", indent)
             key == entries[1].k
             value == entries[1].v
             here == IF IsContainer(value)
                     THEN <<spacer \o key_str(key)>>
                          \o flatten_event_data(value, NestedIndent(indent))
                     ELSE ScalarLines(spacer \o key_str(key), value)
         IN  here \o FlattenEntries(Tail(entries), indent)

FlattenItems(items, indent) ==
    IF Len(items) = 0 THEN <<>>
    ELSE LET spacer == Repeat(" ", indent)
             item == items[1]
             here == IF IsContainer(item)
                     THEN <<spacer \o <<BULLET>>>>
                          \o flatten_event_data(item, NestedIndent(indent))
                     ELSE ScalarLines(spacer \o <<BULLET, " ">>, item)
         IN  here \o FlattenItems(Tail(items), indent)

flatten_event_data(data, indent) ==
    CASE data.t = "dict" -> FlattenEntries(data.entries, indent)
      [] data.t = "list" -> FlattenItems(data.items, indent)
      [] OTHER -> ScalarLines(Repeat(" ", indent), data)

---------------------------------------------------------------------------
(* format_event_box: the bordered box of one event.                        *)

content_lines(data) ==
    IF Truthy(data) THEN flatten_event_data(data, 0)
    ELSE <<NoEventDataText>>

item_count(data) ==
    IF Truthy(data) /\ data.t = "dict" THEN Len(data.entries) ELSE 0

(* The top and the bottom border: the text centred in a run of bars.       *)
Border(left, text, right, box_width) ==
    <<left>> \o Repeat(HBAR, (box_width - 2 - Len(text)) \div 2) \o text
    \o Repeat(HBAR, (box_width - 2 - Len(text))
                    - Len(Repeat(HBAR, (box_width - 2 - Len(text)) \div 2)))
    \o <<right>>

BoxOf(header, content, content_width, count) ==
    <<Border(TOPLEFT, <<" ">> \o header \o <<" ">>, TOPRIGHT,
             content_width + 4)>>
    \o [i \in 1..Len(content) |->
          <<VBAR, " ", " ">> \o ljust(content[i], content_width)
          \o <<" ", " ", VBAR>>]
    \o <<Border(BOTTOMLEFT, ItemsText \o IntText(count) \o <<" ">>,
                BOTTOMRIGHT, content_width + 4)>>

BoxLines(event, data) ==
    Bind(content_lines(data), LAMBDA content :
        Bind(MaxLen(<<<<TARGET, " ">> \o event>> \o content),
             LAMBDA content_width :
                BoxOf(<<TARGET, " ">> \o event, content, content_width,
                      item_count(data))))

format_event_box(event, data) == join(<<NL>>, BoxLines(event, data))

---------------------------------------------------------------------------
(* st.session_state: a function whose domain is the set of keys present.   *)

Has(ss, k) == k \in DOMAIN ss
Get(ss, k, default) == IF Has(ss, k) THEN ss[k] ELSE default
Set(ss, k, v) == (k :> v) @@ ss
Del(ss, k) == [x \in DOMAIN ss \ {k} |-> ss[x]]
(* if key not in st.session_state: st.session_state[key] = v *)
SetDefault(ss, k, v) == ss @@ (k :> v)
EmptySessionState == [x \in {} |-> <<>>]

(* A placeholder made by st.empty() and what it shows.                     *)
EmptyPlaceholder == [el |-> "empty", body |-> <<>>]
CodeBlock(text) == [el |-> "code", body |-> text]

(* An element put on the page: st.info, st.success, st.error, ...          *)
Element(kind, text, arg) == [el |-> kind, text |-> text, arg |-> arg]

(* update_event_logs: both placeholders, where present, show the joined    *)
(* logs again.                                                             *)
update_event_logs(ss) ==
    Bind(ss, LAMBDA s :
        [k \in DOMAIN s |->
            IF k = "main_event_log_container"
            THEN CodeBlock(join(<<NL, NL>>, Get(s, "event_log", <<>>)))
            ELSE IF k = "sidebar_minimal_event_log_container"
            THEN CodeBlock(join(<<NL>>, Get(s, "minimal_event_log", <<>>)))
            ELSE s[k]])

(* dict[key] = value: an existing key keeps its place.                     *)
SetKey(entries, k, v) ==
    Bind(entries, LAMBDA es :
        IF \E i \in 1..Len(es) : es[i].k = k
        THEN [i \in 1..Len(es) |-> IF es[i].k = k THEN Entry(k, v) ELSE es[i]]
        ELSE Append(es, Entry(k, v)))

RECURSIVE SetKeys(_, _)
SetKeys(entries, more) ==
    IF Len(more) = 0 THEN entries
    ELSE SetKeys(SetKey(entries, more[1].k, more[1].v), Tail(more))

(* What dict.update makes of one element of a sequence argument: a pair    *)
(* (key, value), or nothing when the element is not a 2-sequence.          *)
IsPair(item) ==
    \/ item.t = "str" /\ Len(item.s) = 2
    \/ item.t = "list" /\ Len(item.items) = 2 /\ ~IsContainer(item.items[1])

PairOf(item) ==
    IF item.t = "str"
    THEN Entry(<<item.s[1]>>, StrVal(<<item.s[2]>>))
    ELSE Entry(PyStr(item.items[1]), item.items[2])

(* Iterating a str yields its characters, each a str of length 1.          *)
IterItems(v) ==
    IF v.t = "str" THEN [i \in 1..Len(v.s) |-> StrVal(<<v.s[i]>>)]
    ELSE v.items

(* event_data.update(extra_data): ok is FALSE when Python raises           *)
(* (TypeError for a value that is not iterable or an element that is no    *)
(* sequence, ValueError for an element whose length is not 2).             *)
DictUpdate(entries, extra) ==
    CASE extra.t = "dict" ->
            [ok |-> TRUE, entries |-> SetKeys(entries, extra.entries)]
      [] extra.t \in {"list", "str"} ->
            Bind(IterItems(extra), LAMBDA items :
                IF \A i \in 1..Len(items) : IsPair(items[i])
                THEN [ok |-> TRUE,
                      entries |-> SetKeys(entries,
                                    [i \in 1..Len(items) |-> PairOf(items[i])])]
                ELSE [ok |-> FALSE, entries |-> entries])
      [] OTHER -> [ok |-> FALSE, entries |-> entries]

(* datetime.now().strftime('%H:%M:%S') *)
Pad2(n) == IF n < 10 THEN <<"0">> \o IntText(n) ELSE IntText(n)
TimeText(clock) ==
    Pad2((clock \div 3600) % 24) \o <<":">> \o Pad2((clock \div 60) % 60)
    \o <<":">> \o Pad2(clock % 60)

(* f"{message} ({event_type})" *)
Titled(message, event_type) ==
    message \o <<" ", "(">> \o event_type \o <<")">>

(* event_data of log_event: the message, then the extra data.              *)
event_data(message, extra_data) ==
    IF Truthy(extra_data)
    THEN DictUpdate(<<Entry(key_message, StrVal(message))>>, extra_data)
    ELSE [ok |-> TRUE, entries |-> <<Entry(key_message, StrVal(message))>>]

(* log_event with insert(0, ...) in place of append: the newest entry is   *)
(* put first.                                                              *)
log_event_insert_first(ss, clock, message, event_type, extra_data) ==
    Bind(event_data(message, extra_data), LAMBDA upd :
        IF ~upd.ok THEN [raised |-> TRUE, ss |-> ss]
        ELSE [raised |-> FALSE,
              ss |-> update_event_logs(
                 [SetDefault(SetDefault(ss, "event_log", <<>>),
                             "minimal_event_log", <<>>)
                    EXCEPT !["event_log"] =
                              <<format_event_box(Titled(message, event_type),
                                                 Dict(upd.entries))>> \o @,
                           !["minimal_event_log"] =
                              <<TimeText(clock) \o <<" ", "-", " ">>
                                \o Titled(message, event_type)>> \o @])])

(* log_event: one box on the full log, one line on the minimal log, both   *)
(* displays refreshed. raised is TRUE when the call ends in an exception,  *)
(* which happens before anything is appended.                              *)
log_event(ss, clock, message, event_type, extra_data) ==
    Bind(event_data(message, extra_data), LAMBDA upd :
        IF ~upd.ok THEN [raised |-> TRUE, ss |-> ss]
        ELSE [raised |-> FALSE,
              ss |-> update_event_logs(
                 [SetDefault(SetDefault(ss, "event_log", <<>>),
                             "minimal_event_log", <<>>)
                    EXCEPT !["event_log"] =
                              Append(@, format_event_box(
                                           Titled(message, event_type),
                                           Dict(upd.entries))),
                           !["minimal_event_log"] =
                              Append(@, TimeText(clock) \o <<" ", "-", " ">>
                                        \o Titled(message, event_type))])])

(* handle_stream_chunk with `=` in place of `+=`: the buffer is the last    *)
(* fragment.                                                               *)
handle_stream_chunk_assign(ss, event, data) ==
    IF event = stream_chunk /\ Truthy(data)
    THEN Bind(SetDefault(SetDefault(ss, "stream_response", <<>>),
                         "stream_container", EmptyPlaceholder),
              LAMBDA ss1 :
                IF data.t # "str" THEN [raised |-> TRUE, ss |-> ss1]
                ELSE [raised |-> FALSE,
                      ss |-> [ss1 EXCEPT
                         !["stream_response"] = data.s,
                         !["stream_container"] = CodeBlock(data.s)]])
    ELSE [raised |-> FALSE, ss |-> ss]

(* handle_stream_chunk: a non-empty fragment of a stream_chunk event is    *)
(* appended to the buffer and the buffer is shown again. `+=` of a true    *)
(* value that is no str raises TypeError, after the keys were created.     *)
handle_stream_chunk(ss, event, data) ==
    IF event = stream_chunk /\ Truthy(data)
    THEN Bind(SetDefault(SetDefault(ss, "stream_response", <<>>),
                         "stream_container", EmptyPlaceholder),
              LAMBDA ss1 :
                IF data.t # "str" THEN [raised |-> TRUE, ss |-> ss1]
                ELSE [raised |-> FALSE,
                      ss |-> [ss1 EXCEPT
                         !["stream_response"] = @ \o data.s,
                         !["stream_container"] =
                            CodeBlock(ss1["stream_response"] \o data.s)]])
    ELSE [raised |-> FALSE, ss |-> ss]

(* data.get("tool_name", "Unknown tool") if data else "Unknown tool".      *)
(* ok is FALSE when data is true and has no get method.                    *)
tool_name(data) ==
    IF ~Truthy(data) THEN [ok |-> TRUE, name |-> StrVal(UnknownTool)]
    ELSE IF data.t # "dict" THEN [ok |-> FALSE, name |-> None]
    ELSE IF \E i \in 1..Len(data.entries) : data.entries[i].k = key_tool_name
    THEN [ok |-> TRUE,
          name |-> data.entries[CHOOSE i \in 1..Len(data.entries) :
                                  data.entries[i].k = key_tool_name].v]
    ELSE [ok |-> TRUE, name |-> StrVal(UnknownTool)]

(* A call's outcome: the session state and page it leaves, and whether it  *)
(* ended in an exception.                                                  *)
Outcome(raised, ss, pg) == [raised |-> raised, ss |-> ss, page |-> pg]

(* One branch of track_events: a notice on the page, then log_event.       *)
Tracked(ss, pg, clock, notice, message, event_type, data) ==
    Bind(log_event(ss, clock, message, event_type, data), LAMBDA r :
        Outcome(r.raised, r.ss, Append(pg, notice)))

(* track_events: the listener of the agent's lifecycle events.             *)
track_events(ss, pg, clock, event, data) ==
    CASE event = task_think_start ->
            Tracked(ss, pg, clock,
                    Element("info", "Agent is thinking...", None),
                    task_think_start, thinking, data)
      [] event = tool_execution_start ->
            IF ~tool_name(data).ok THEN Outcome(TRUE, ss, pg)
            ELSE Tracked(ss, pg, clock,
                    Element("info", "Tool execution started: ",
                            tool_name(data).name),
                    tool_execution_start, info, data)
      [] event = task_think_end ->
            Tracked(ss, pg, clock,
                    Element("success", "Agent finished thinking", None),
                    task_think_end, success, data)
      [] event = tool_execution_end ->
            IF ~tool_name(data).ok THEN Outcome(TRUE, ss, pg)
            ELSE Tracked(ss, pg, clock,
                    Element("success", "Tool execution ended: ",
                            tool_name(data).name),
                    tool_execution_end, success, data)
      [] event = error_max_iterations_reached ->
            Tracked(ss, pg, clock,
                    Element("error", "Maximum iterations reached. Exiting.",
                            None),
                    error_max_iterations_reached, error, data)
      [] OTHER -> Outcome(FALSE, ss, pg)

---------------------------------------------------------------------------
(* The agent of the quantalogic library, as far as the programs use it:    *)
(* it is built with a model and tools, listeners are registered on its     *)
(* event emitter, and solve_task runs, emits events and returns or raises. *)

NoAgent == [none |-> TRUE]

(* A line printed on the terminal.                                         *)
Printed(kind, text, body) == [out |-> kind, text |-> text, body |-> body]

(* event_emitter.on(events, listener): the listener is appended to the     *)
(* listeners of each named event.                                          *)
Range(seq) == {seq[i] : i \in 1..Len(seq)}

On(listeners, events, listener) ==
    [e \in DOMAIN listeners \cup Range(events) |->
        (IF e \in DOMAIN listeners THEN listeners[e] ELSE <<>>)
        \o (IF e \in Range(events) THEN <<listener>> ELSE <<>>)]

LifecycleEvents ==
    <<task_complete, task_think_start, task_think_end, tool_execution_start,
      tool_execution_end, error_max_iterations_reached, memory_full,
      memory_compacted, memory_summary>>

(* initialize_agent: the agent of the streamlit application.               *)
initialize_agent ==
    LET l0 == [e \in {} |-> <<>>]
        l1 == On(l0, LifecycleEvents, "track_events")
        l2 == On(l1, LifecycleEvents, "console_print_events")
    IN  [model_name |-> "openrouter/openai/gpt-4o-mini",
         tools |-> <<"DuckDuckGoSearchTool", "SerpApiSearchTool",
                     "ReadFileTool", "WriteFileTool">>,
         listeners |-> l2]

(* The listeners deep_search attaches to the agent initialize_agent made.  *)
ReattachedEvents ==
    <<task_think_start, tool_execution_start, task_think_end,
      tool_execution_end, error_max_iterations_reached>>

deep_search_agent ==
    LET a == initialize_agent
        l3 == On(a.listeners, ReattachedEvents, "track_events")
        l4 == On(l3, <<stream_chunk>>, "handle_stream_chunk")
    IN  [a EXCEPT !.listeners = l4]

(* The agent of the console script.                                        *)
console_agent ==
    LET l0 == [e \in {} |-> <<>>]
        l1 == On(l0, LifecycleEvents, "console_print_events")
        l2 == On(l1, <<stream_chunk>>, "console_print_token")
    IN  [model_name |-> "openrouter/openai/gpt-4o-mini",
         tools |-> <<"SerpApiSearchTool", "ReadFileTool", "WriteFileTool",
                     "ReplaceInFileTool", "ReadHTMLTool", "ListDirectoryTool",
                     "LLMTool">>,
         listeners |-> l2]

(* What one listener does with an event. w is the state the listeners act  *)
(* on: session state, page, terminal, and whether an exception is raised.  *)
Invoke(listener, w, clock, event, data) ==
    CASE listener = "track_events" ->
            Bind(track_events(w.ss, w.page, clock, event, data), LAMBDA r :
                [w EXCEPT !.raised = r.raised, !.ss = r.ss, !.page = r.page])
      [] listener = "handle_stream_chunk" ->
            Bind(handle_stream_chunk(w.ss, event, data), LAMBDA r :
                [w EXCEPT !.raised = r.raised, !.ss = r.ss])
      [] listener = "console_print_events" ->
            [w EXCEPT !.stdout = Append(@, Printed("event", "", event))]
      [] listener = "console_print_token" ->
            [w EXCEPT !.stdout = Append(@, Printed("token", "", event))]

(* emit(event, data): the listeners of the event run in the order they     *)
(* were registered; an exception of one ends the emit.                     *)
RECURSIVE Dispatch(_, _, _, _, _)
Dispatch(ls, w0, clock, event, data) ==
    Bind(w0, LAMBDA w :
        IF Len(ls) = 0 \/ w.raised THEN w
        ELSE Dispatch(Tail(ls), Invoke(ls[1], w, clock, event, data),
                      clock, event, data))

ListenersOf(a, event) ==
    IF event \in DOMAIN a.listeners THEN a.listeners[event] ELSE <<>>

---------------------------------------------------------------------------
(* The environment: what the user types, what the agent emits.             *)

MaxSearches == 2
MaxEmits == 2

(* The time of day at which a session runs: 12:34:56.                      *)
StartTime == 45296

OPENROUTER_API_KEY == "OPENROUTER_API_KEY"

(* os.environ without the key, with an empty key, with a key.              *)
NoKeyEnv == [x \in {} |-> <<>>]
EmptyKeyEnv == [x \in {OPENROUTER_API_KEY} |-> <<>>]
KeyEnv == [x \in {OPENROUTER_API_KEY} |-> <<"k">>]

Envs == {NoKeyEnv, EmptyKeyEnv, KeyEnv}

(* The programs and the environments they are started in. The streamlit    *)
(* application never reads the environment; it is started without the key  *)
(* and with it.                                                            *)
Starts ==
    ({"app"} \X {NoKeyEnv, KeyEnv}) \cup ({"console"} \X Envs)

(* os.environ.get(name): None when unset.                                  *)
environ_get(e, name) == IF name \in DOMAIN e THEN StrVal(e[name]) ELSE None

(* Subjects a user may type: empty, blank, and a real one.                 *)
Subjects == {<<>>, <<" ", NL>>, <<"q">>}

Whitespace == {" ", "\t", NL, CR}

(* str.strip() *)
RECURSIVE lstrip(_)
lstrip(s) ==
    IF Len(s) > 0 /\ s[1] \in Whitespace THEN lstrip(Tail(s)) ELSE s

RECURSIVE rstrip(_)
rstrip(s) ==
    IF Len(s) > 0 /\ s[Len(s)] \in Whitespace
    THEN rstrip(SubSeq(s, 1, Len(s) - 1)) ELSE s

strip(s) == rstrip(lstrip(s))

(* uuid.uuid4(): the n-th draw of a session. The draws differ from each    *)
(* other, which is all the programs rely on.                               *)
uuid4(n) == <<"u">> \o IntText(n)

(* What the agent may emit during solve_task: an event and its payload.    *)
Emission(event, data) == [event |-> event, data |-> data]

AgentEmissions ==
    {Emission(task_think_start, None),
     Emission(tool_execution_start,
              Dict(<<Entry(key_tool_name, StrVal(<<"s">>))>>)),
     Emission(stream_chunk, StrVal(<<"a">>)),
     Emission(stream_chunk, StrVal(<<"b">>)),
     Emission(stream_chunk, None)}

(* What solve_task returns, and the text of what it raises.                *)
ResultText == <<"r", "e", "p", "o", "r", "t">>
ErrorText == <<"b", "o", "o", "m">>

---------------------------------------------------------------------------
(* The streamlit application: main(), deep_search(), display_results().    *)

NoFrame == [none |-> TRUE]
NoStatus == [label |-> "", state |-> "none"]

(* The research_task of deep_search: the fixed text around the directory   *)
(* and the query; each piece of fixed text is one token.                   *)
research_task(results_dir, query) ==
    <<"<Context: Results will be saved to directory >">> \o results_dir
    \o <<"<System Prompt ... Save raw search results to >">> \o results_dir
    \o <<"<... Research Topic: >">> \o query
    \o <<"<Requirements ... search_[iteration].json in >">> \o results_dir
    \o <<"<3. Create summary_[iteration].md after each search in >">>
    \o results_dir
    \o <<"<4. Cross-validate ... 5. Generate final report in >">>
    \o results_dir \o <<"</report.md with: ...>">>

SolveCall(task, kwargs) ==
    [task |-> task, kwargs |-> kwargs, emitted |-> <<>>, outcome |-> "running"]

NoKwargs == [x \in {} |-> 0]

(* The condition of main() under which a submitted form starts a search.   *)
StartsSearch(submitted, query) == submitted /\ strip(query) # <<>>

(* The head of main(): title, and the two log placeholders once.           *)
MainHead(ss) ==
    SetDefault(SetDefault(ss, "main_event_log_container", EmptyPlaceholder),
               "sidebar_minimal_event_log_container", EmptyPlaceholder)

MainHeadPage ==
    <<Element("title", "Deep Search Agent", None),
      Element("markdown", "Powered by QuantaLogic Research Framework", None)>>

(* main() clears the streaming output of the previous search.              *)
ClearStream(ss) ==
    Bind(ss, LAMBDA s :
        [k \in DOMAIN s \ {"stream_response", "stream_container"} |-> s[k]])

(* A run of main() that starts no search, because nothing was submitted   *)
(* or because the query does not pass the test: the page is drawn and the  *)
(* log displays are refreshed. The first run of a session has no           *)
(* submission.                                                             *)
MainNoSearch ==
    /\ frontend = "app"
    /\ pc \in {"start", "idle"}
    /\ {in \in BOOLEAN \X Subjects :
            /\ pc = "start" => ~in[1]
            /\ ~StartsSearch(in[1], in[2])} # {}
    /\ session_state' = update_event_logs(MainHead(session_state))
    /\ page' = MainHeadPage
    /\ pc' = "idle"
    /\ UNCHANGED <<frontend, env, status, agent, solve_calls, stdout, now,
                   fs, frame, calls>>

(* A run of main() with a submitted query: the stream is cleared and       *)
(* deep_search runs up to its call of agent.solve_task.                    *)
MainSearch(query) ==
    /\ frontend = "app"
    /\ pc = "idle"
    /\ StartsSearch(TRUE, query)
    /\ Len(solve_calls) < MaxSearches
    /\ LET task_id == uuid4(Len(solve_calls) + 1)
           results_dir == ResultsRoot \o task_id
       IN  /\ session_state' =
                  log_event(ClearStream(MainHead(session_state)), now,
                            deep_search_start, info,
                            Dict(<<Entry(key_query, StrVal(query))>>)).ss
           /\ fs' = fs \cup {results_dir}
           /\ frame' = [query |-> query, results_dir |-> results_dir,
                        result |-> None, raised |-> FALSE]
           /\ solve_calls' = Append(solve_calls,
                  SolveCall(research_task(results_dir, query), NoKwargs))
    /\ page' = Append(MainHeadPage,
                      Element("info", "Initiating deep search operation...",
                              None))
    /\ agent' = deep_search_agent
    /\ status' = [label |-> "Conducting research...", state |-> "running"]
    /\ pc' = "solving"
    /\ UNCHANGED <<frontend, env, stdout, now, calls>>

RECURSIVE TotalEmits(_)
TotalEmits(cs) ==
    IF Len(cs) = 0 THEN 0
    ELSE Len(cs[1].emitted) + TotalEmits(Tail(cs))

Questions(out) == Len(SelectSeq(out, LAMBDA o : o.out = "question"))

(* The running solve_task emits an event: its listeners run.               *)
AgentEmit(e) ==
    /\ pc = "solving"
    /\ ~frame.raised
    /\ TotalEmits(solve_calls) + Questions(stdout) < MaxEmits
    /\ \E w \in {Dispatch(ListenersOf(agent, e.event),
                         [raised |-> FALSE, ss |-> session_state,
                          page |-> page, stdout |-> stdout],
                         now, e.event, e.data)} :
           /\ session_state' = w.ss
           /\ page' = w.page
           /\ stdout' = w.stdout
           /\ frame' = [frame EXCEPT !.raised = w.raised]
    /\ solve_calls' =
          [solve_calls EXCEPT ![Len(solve_calls)].emitted = Append(@, e)]
    /\ UNCHANGED <<frontend, env, pc, status, agent, now, fs, calls>>

(* display_results: the notices, the log entry, the report, the counts.    *)
(* The directory holds what the agent wrote; the model's agent writes      *)
(* nothing, so the counts are 0.                                           *)
display_results_page(pg, result) ==
    pg \o <<Element("success", "Deep Search Completed!", None),
            Element("markdown", "Final Report", result),
            Element("metric", "Total Files", IntVal(0)),
            Element("metric", "Search Iterations", IntVal(0)),
            Element("metric", "Analysis Files", IntVal(0))>>

display_results(ss, clock, results_dir) ==
    log_event(ss, clock, display_results_msg, success,
              Dict(<<Entry(key_results_dir, StrVal(results_dir))>>)).ss

(* solve_task returned: deep_search logs research_completed and returns    *)
(* the result, main() displays it and refreshes the log displays.          *)
SearchReturns ==
    /\ frontend = "app"
    /\ pc = "solving"
    /\ ~frame.raised
    /\ status' = [label |-> "Research completed!", state |-> "complete"]
    /\ session_state' = update_event_logs(
          display_results(
             log_event(session_state, now, research_completed, success,
                       Dict(<<Entry(key_results_dir,
                                    StrVal(frame.results_dir))>>)).ss,
             now, frame.results_dir))
    /\ page' = display_results_page(page, StrVal(ResultText))
    /\ frame' = [frame EXCEPT !.result = StrVal(ResultText)]
    /\ solve_calls' =
          [solve_calls EXCEPT ![Len(solve_calls)].outcome = "returned"]
    /\ pc' = "idle"
    /\ UNCHANGED <<frontend, env, agent, stdout, now, fs, calls>>

(* solve_task raised: the except branch of deep_search shows and logs the  *)
(* error and returns its text as the result, which main() displays.        *)
SearchRaises ==
    /\ frontend = "app"
    /\ pc = "solving"
    /\ status' = [label |-> "Research failed", state |-> "error"]
    /\ session_state' = update_event_logs(
          display_results(
             log_event(session_state, now, research_failed, error,
                       Dict(<<Entry(error, StrVal(ErrorText))>>)).ss,
             now, frame.results_dir))
    /\ page' = display_results_page(
          Append(page, Element("error", "An error occurred during research: ",
                               StrVal(ErrorText))),
          StrVal(ErrorText))
    /\ frame' = [frame EXCEPT !.result = StrVal(ErrorText), !.raised = FALSE]
    /\ solve_calls' =
          [solve_calls EXCEPT ![Len(solve_calls)].outcome = "raised"]
    /\ pc' = "idle"
    /\ UNCHANGED <<frontend, env, agent, stdout, now, fs, calls>>

---------------------------------------------------------------------------
(* The console script.                                                     *)

MAX_ITERATIONS == 10

ConsoleKwargs == [streaming |-> TRUE, max_iterations |-> MAX_ITERATIONS]

ConsoleOutputDirectory == <<".", "/", "r", "e", "s", "u", "l", "t", "s">>

(* The task_prompt of the script, each piece of fixed text one token.      *)
task_prompt(subject_to_search) ==
    <<"<MISSION: ... research analysis on this subject: >">>
    \o subject_to_search
    \o <<"<YOU MUST COMPLETE THE SEARCH IN LESS THAN >">>
    \o IntText(MAX_ITERATIONS)
    \o <<"< ITERATIONS. ... Write a final report in >">>
    \o ConsoleOutputDirectory \o <<"</: ... markdown ...>">>

(* The script up to input(): the key check, the tools, the agent and its   *)
(* listeners. Without the key the script ends with a ValueError.           *)
ConsoleStart ==
    /\ frontend = "console"
    /\ pc = "start"
    /\ IF ~Truthy(environ_get(env, OPENROUTER_API_KEY))
       THEN /\ pc' = "crashed"
            /\ stdout' = Append(stdout, Printed("traceback",
                 "ValueError: OPENROUTER_API_KEY environment variable is not set",
                 <<>>))
            /\ agent' = agent
       ELSE /\ pc' = "input"
            /\ agent' = console_agent
            /\ stdout' = Append(stdout, Printed("prompt",
                                  "Enter a subject to search: ", <<>>))
    /\ UNCHANGED <<frontend, env, session_state, page, status, solve_calls,
                   now, fs, frame, calls>>

(* input() returns the subject; the prompt is built and solve_task called. *)
ConsoleInput(subject) ==
    /\ frontend = "console"
    /\ pc = "input"
    /\ frame' = [subject_to_search |-> subject, result |-> None,
                 raised |-> FALSE]
    /\ solve_calls' = Append(solve_calls,
                             SolveCall(task_prompt(subject), ConsoleKwargs))
    /\ pc' = "solving"
    /\ UNCHANGED <<frontend, env, session_state, page, status, agent, stdout,
                   now, fs, calls>>

(* ask_for_user_validation: the question is printed, the answer is True.   *)
ConsoleAsk ==
    /\ frontend = "console"
    /\ pc = "solving"
    /\ TotalEmits(solve_calls) + Questions(stdout) < MaxEmits
    /\ stdout' = Append(stdout, Printed("question", "question", <<>>))
    /\ UNCHANGED <<frontend, env, pc, session_state, page, status, agent,
                   solve_calls, now, fs, frame, calls>>

(* solve_task returned: the result is bound and the script ends.           *)
ConsoleReturn ==
    /\ frontend = "console"
    /\ pc = "solving"
    /\ ~frame.raised
    /\ frame' = [frame EXCEPT !.result = StrVal(ResultText)]
    /\ solve_calls' =
          [solve_calls EXCEPT ![Len(solve_calls)].outcome = "returned"]
    /\ pc' = "done"
    /\ UNCHANGED <<frontend, env, session_state, page, status, agent, stdout,
                   now, fs, calls>>

(* solve_task raised: nothing catches it.                                  *)
ConsoleRaise ==
    /\ frontend = "console"
    /\ pc = "solving"
    /\ stdout' = Append(stdout, Printed("traceback", "", ErrorText))
    /\ solve_calls' =
          [solve_calls EXCEPT ![Len(solve_calls)].outcome = "raised"]
    /\ pc' = "crashed"
    /\ UNCHANGED <<frontend, env, session_state, page, status, agent, now,
                   fs, frame, calls>>

---------------------------------------------------------------------------
Init ==
    /\ \E st \in Starts : frontend = st[1] /\ env = st[2]
    /\ pc = "start"
    /\ session_state = EmptySessionState
    /\ page = <<>>
    /\ status = NoStatus
    /\ agent = NoAgent
    /\ solve_calls = <<>>
    /\ stdout = <<>>
    /\ now = StartTime
    /\ fs = {}
    /\ frame = NoFrame
    /\ calls = <<>>

Next ==
    \/ MainNoSearch
    \/ \E query \in Subjects : MainSearch(query)
    \/ \E e \in AgentEmissions : AgentEmit(e)
    \/ SearchReturns
    \/ SearchRaises
    \/ ConsoleStart
    \/ \E subject \in Subjects : ConsoleInput(subject)
    \/ ConsoleAsk
    \/ ConsoleReturn
    \/ ConsoleRaise

Spec == Init /\ [][Next]_vars

---------------------------------------------------------------------------
(* The callbacks called on their own, with any event name and payload, in  *)
(* a session whose page main() has drawn, and the step of main() that      *)
(* clears the streaming output when a search starts.                       *)

MaxCalls == 3

CallEvents ==
    {task_think_start, tool_execution_start, task_complete, <<"x">>}

CallPayloads ==
    {None, Dict(<<>>), Dict(<<Entry(key_tool_name, StrVal(<<"s">>))>>),
     StrVal(<<"a", "b">>), List(<<IntVal(1)>>)}

CallFragments ==
    {None, StrVal(<<>>), StrVal(<<"a">>), StrVal(<<"b">>)}

StreamCalls ==
    ({stream_chunk} \X CallFragments) \cup {<<task_think_start, StrVal(<<"a">>)>>}

Called(fn, event, data, raised) ==
    [fn |-> fn, event |-> event, data |-> data, raised |-> raised]

CallTrackEvents(event, data) ==
    /\ pc = "calls"
    /\ Len(calls) < MaxCalls
    /\ \E r \in {track_events(session_state, page, now, event, data)} :
          /\ session_state' = r.ss
          /\ page' = r.page
          /\ calls' = Append(calls,
                             Called("track_events", event, data, r.raised))
    /\ UNCHANGED <<frontend, env, pc, status, agent, solve_calls, stdout, now,
                   fs, frame>>

CallHandleStreamChunk(event, data) ==
    /\ pc = "calls"
    /\ Len(calls) < MaxCalls
    /\ \E r \in {handle_stream_chunk(session_state, event, data)} :
          /\ session_state' = r.ss
          /\ calls' = Append(calls, Called("handle_stream_chunk", event, data,
                                           r.raised))
    /\ UNCHANGED <<frontend, env, pc, page, status, agent, solve_calls,
                   stdout, now, fs, frame>>

(* main() starts a search: the streaming output of the previous one goes.  *)
CallClearStream ==
    /\ pc = "calls"
    /\ Len(calls) < MaxCalls
    /\ session_state' = ClearStream(session_state)
    /\ calls' = Append(calls, Called("main", <<>>, None, FALSE))
    /\ UNCHANGED <<frontend, env, pc, page, status, agent, solve_calls,
                   stdout, now, fs, frame>>

InitCalls ==
    /\ frontend = "app"
    /\ env = KeyEnv
    /\ pc = "calls"
    /\ session_state = MainHead(EmptySessionState)
    /\ page = MainHeadPage
    /\ status = NoStatus
    /\ agent = NoAgent
    /\ solve_calls = <<>>
    /\ stdout = <<>>
    /\ now = StartTime
    /\ fs = {}
    /\ frame = NoFrame
    /\ calls = <<>>

NextCalls ==
    \/ \E event \in CallEvents, data \in CallPayloads :
          CallTrackEvents(event, data)
    \/ \E c \in StreamCalls : CallHandleStreamChunk(c[1], c[2])
    \/ CallClearStream

SpecCalls == InitCalls /\ [][NextCalls]_vars

---------------------------------------------------------------------------
(* flatten_event_data and format_event_box applied to payloads: scalars,   *)
(* containers of scalars, and containers of those.                         *)

MaxList == 2

Scalars ==
    {StrVal(<<>>), StrVal(<<"x", NL>>), StrVal(<<"x", NL, "y">>), IntVal(1)}

Keys == {<<"a">>, <<"b">>}

(* The orders the keys of a dict can be inserted in, none twice.           *)
KeySeqs ==
    {ks \in UNION {[1..m -> Keys] : m \in 0..Cardinality(Keys)} :
        \A i, j \in 1..Len(ks) : i # j => ks[i] # ks[j]}

DictOf(ks, vs) == Dict([i \in 1..Len(ks) |-> Entry(ks[i], vs[i])])

(* The values a container holds: scalars, lists of at most n scalars and   *)
(* dicts of scalars.                                                       *)
InnerValues(n) ==
    Scalars
    \cup UNION {{List(items) : items \in [1..m -> Scalars]} : m \in 0..n}
    \cup UNION {{DictOf(ks, vs) : vs \in [1..Len(ks) -> Scalars]} :
                   ks \in KeySeqs}

(* The payload the specification takes as its example.                     *)
ExamplePayload ==
    Dict(<<Entry(<<"a">>, Dict(<<Entry(<<"b">>, IntVal(1))>>)),
           Entry(<<"c">>, List(<<IntVal(1), IntVal(2)>>))>>)

BoxEvents == {<<"e">>, Titled(task_think_start, thinking)}

Returned(fn, event, data, ret) ==
    [fn |-> fn, event |-> event, data |-> data, ret |-> ret]

CallFlatten(data) ==
    /\ pc = "pure"
    /\ calls = <<>>
    /\ calls' = <<Returned("flatten_event_data", <<>>, data,
                           flatten_event_data(data, 0))>>
    /\ UNCHANGED <<frontend, env, pc, session_state, page, status, agent,
                   solve_calls, stdout, now, fs, frame>>

CallFormatEventBox(event, data) ==
    /\ pc = "pure"
    /\ calls = <<>>
    /\ calls' = <<Returned("format_event_box", event, data,
                           format_event_box(event, data))>>
    /\ UNCHANGED <<frontend, env, pc, session_state, page, status, agent,
                   solve_calls, stdout, now, fs, frame>>

(* One call of either function on a payload.                               *)
CallPure(data) ==
    \/ CallFlatten(data)
    \/ \E event \in BoxEvents : CallFormatEventBox(event, data)

InitPure ==
    /\ frontend = "app"
    /\ env = KeyEnv
    /\ pc = "pure"
    /\ session_state = EmptySessionState
    /\ page = <<>>
    /\ status = NoStatus
    /\ agent = NoAgent
    /\ solve_calls = <<>>
    /\ stdout = <<>>
    /\ now = StartTime
    /\ fs = {}
    /\ frame = NoFrame
    /\ calls = <<>>

(* A run makes one call: on None, the example or an inner value, on a list *)
(* of inner values, or on a dict of inner values.                          *)
NextPure ==
    /\ calls = <<>>
    /\ \/ \E data \in InnerValues(MaxList) \cup {None, ExamplePayload} :
             CallPure(data)
       \/ \E m \in 0..Cardinality(Keys) :
             \E items \in [1..m -> InnerValues(MaxList)] :
                CallPure(List(items))
       \/ \E ks \in KeySeqs :
             \E vs \in [1..Len(ks) -> InnerValues(MaxList)] :
                CallPure(DictOf(ks, vs))

SpecPure == InitPure /\ [][NextPure]_vars

---------------------------------------------------------------------------
(* Properties of the callbacks called on their own (SpecCalls).            *)

EventLog == Get(session_state, "event_log", <<>>)

(* C1: every call of track_events that returns, whatever the event name,   *)
(* adds exactly one entry to the event log: after n such calls the log     *)
(* holds n entries.                                                        *)
C1_OneEntryPerCall ==
    pc = "calls" =>
       Len(EventLog) =
          Len(SelectSeq(calls, LAMBDA c : c.fn = "track_events" /\ ~c.raised))

(* The text streamed since the current search started: the fragments       *)
(* passed with the name stream_chunk after main() last started a search,   *)
(* one after the other.                                                    *)
RECURSIVE FragmentsSinceStart(_)
FragmentsSinceStart(cs) ==
    IF Len(cs) = 0 \/ cs[Len(cs)].fn = "main" THEN <<>>
    ELSE FragmentsSinceStart(SubSeq(cs, 1, Len(cs) - 1))
         \o (IF /\ cs[Len(cs)].fn = "handle_stream_chunk"
                /\ cs[Len(cs)].event = stream_chunk
                /\ cs[Len(cs)].data.t = "str"
             THEN cs[Len(cs)].data.s ELSE <<>>)

(* C2: the token buffer is the concatenation, in arrival order and with    *)
(* nothing between them, of the fragments passed to handle_stream_chunk    *)
(* with the name stream_chunk since the current search started; a call     *)
(* with another name or an empty or None fragment leaves it as it is, and  *)
(* no fragment of an earlier search remains once a new search starts.      *)
C2_BufferIsConcatenation ==
    pc = "calls" =>
       Get(session_state, "stream_response", <<>>) = FragmentsSinceStart(calls)

(* Two fragments were streamed in one search.                              *)
C2_TwoFragmentsStreamed ==
    /\ pc = "calls"
    /\ Len(calls) = 2
    /\ \A i \in 1..2 : calls[i].fn = "handle_stream_chunk"
    /\ Has(session_state, "stream_response")
    /\ session_state["stream_response"] = <<"a", "b">>

(* C5: a call of track_events with a payload that is None, empty or not a  *)
(* mapping returns without raising.                                        *)
C5_BadPayloadNeverRaises ==
    pc = "calls" =>
       \A i \in 1..Len(calls) :
          (/\ calls[i].fn = "track_events"
           /\ (~Truthy(calls[i].data) \/ calls[i].data.t # "dict"))
          => ~calls[i].raised

---------------------------------------------------------------------------
(* Properties of the programs (Spec).                                      *)

(* The title of a log entry: the text after the target sign in the top     *)
(* border of the box.                                                      *)
TitleStart(entry) == CHOOSE i \in 1..Len(entry) : entry[i] = TARGET

TitleEnd(entry, i) ==
    CHOOSE j \in i..Len(entry) :
       /\ entry[j] \in {HBAR, TOPRIGHT}
       /\ \A k \in i..(j - 1) : entry[k] \notin {HBAR, TOPRIGHT}

TitleOf(entry) ==
    Bind(TitleStart(entry), LAMBDA i :
        SubSeq(entry, i + 2, TitleEnd(entry, i) - 2))

Titles(log) == [i \in 1..Len(log) |-> TitleOf(log[i])]

LastCall == solve_calls[Len(solve_calls)]

(* The lifecycle events track_events has a branch for and the title of     *)
(* the entry it logs for each.                                             *)
TrackedTitle(event) ==
    CASE event = task_think_start -> Titled(task_think_start, thinking)
      [] event = tool_execution_start -> Titled(tool_execution_start, info)
      [] event = task_think_end -> Titled(task_think_end, success)
      [] event = tool_execution_end -> Titled(tool_execution_end, success)
      [] event = error_max_iterations_reached ->
            Titled(error_max_iterations_reached, error)

IsTracked(e) == e.event \in Range(ReattachedEvents)

TrackedTitles(emitted) ==
    Bind(SelectSeq(emitted, IsTracked), LAMBDA es :
        [i \in 1..Len(es) |-> TrackedTitle(es[i].event)])

(* C3: when solve_task raised, the research_failed entry is the last entry *)
(* of the request and the request is not reported as completed.            *)
C3_FailedEntryIsTerminal ==
    (/\ frontend = "app"
     /\ env = KeyEnv
     /\ pc = "idle"
     /\ Len(solve_calls) > 0
     /\ LastCall.outcome = "raised")
    => /\ TitleOf(EventLog[Len(EventLog)]) = Titled(research_failed, error)
       /\ \A i \in 1..Len(page) : page[i].text # "Deep Search Completed!"

(* C4: during a search every lifecycle notification the agent emits adds   *)
(* exactly one entry to the event log.                                     *)
C4_OneEntryPerEmission ==
    (/\ frontend = "app"
     /\ env = KeyEnv
     /\ pc = "solving"
     /\ Len(solve_calls) = 1)
    => Len(EventLog) = 1 + Len(TrackedTitles(LastCall.emitted))

(* C7: in every front-end, when OPENROUTER_API_KEY is unset or empty no    *)
(* agent is constructed and solve_task is never called.                    *)
C7_NoWorkWithoutKey ==
    ~Truthy(environ_get(env, OPENROUTER_API_KEY))
    => /\ "listeners" \notin DOMAIN agent
       /\ solve_calls = <<>>

(* C8: in every front-end, solve_task is only called with a prompt built   *)
(* from a subject that is non-empty after trimming whitespace.             *)
C8_OnlyNonBlankSubjects ==
    \A i \in 1..Len(solve_calls) :
       \E subject \in Subjects :
          /\ strip(subject) # <<>>
          /\ \/ solve_calls[i].task = task_prompt(subject)
             \/ solve_calls[i].task =
                   research_task(ResultsRoot \o uuid4(i), subject)

(* A is B with each of its elements one or more times in a row.            *)
RECURSIVE Repeats(_, _)
Repeats(A, B) ==
    IF Len(B) = 0 THEN Len(A) = 0
    ELSE /\ Len(A) > 0
         /\ A[1] = B[1]
         /\ \/ Repeats(Tail(A), Tail(B))
            \/ Repeats(Tail(A), B)

(* The titles of the log are those of the requests, one request after the  *)
(* other: deep_search_start, then the entries of the agent's events in the *)
(* order emitted, then, once solve_task ended, research_completed when it  *)
(* returned or research_failed when it raised, then display_results.       *)
RECURSIVE Bracketed(_, _)
Bracketed(titles, cs) ==
    IF Len(cs) = 0 THEN Len(titles) = 0
    ELSE /\ Len(titles) > 0
         /\ titles[1] = Titled(deep_search_start, info)
         /\ IF cs[1].outcome = "running"
            THEN /\ Len(cs) = 1
                 /\ Repeats(Tail(titles), TrackedTitles(cs[1].emitted))
            ELSE \E n \in 1..(Len(titles) - 2) :
                    /\ Repeats(SubSeq(titles, 2, n),
                               TrackedTitles(cs[1].emitted))
                    /\ titles[n + 1] =
                          (IF cs[1].outcome = "returned"
                           THEN Titled(research_completed, success)
                           ELSE Titled(research_failed, error))
                    /\ titles[n + 2] = Titled(display_results_msg, success)
                    /\ Bracketed(SubSeq(titles, n + 3, Len(titles)), Tail(cs))

(* C10: for each search request the log entries are bracketed: the         *)
(* deep_search_start entry comes before any entry of an agent event of the *)
(* request, the entries of the agent's events are in the order the agent   *)
(* emitted them, and after the last of them comes exactly one of           *)
(* research_completed and research_failed, according to whether solve_task *)
(* returned or raised.                                                     *)
C10_LogIsBracketed ==
    frontend = "app" => Bracketed(Titles(EventLog), solve_calls)

(* A request with two different agent events ended with solve_task         *)
(* raising.                                                                *)
C10_TwoEventsThenFailed ==
    /\ frontend = "app"
    /\ pc = "idle"
    /\ Len(solve_calls) = 1
    /\ LastCall.outcome = "raised"
    /\ TrackedTitles(LastCall.emitted) =
          <<Titled(task_think_start, thinking),
            Titled(tool_execution_start, info)>>

---------------------------------------------------------------------------
(* Properties of flatten_event_data (SpecPure).                            *)

Flattened ==
    pc = "pure" /\ Len(calls) = 1 /\ calls[1].fn = "flatten_event_data"

(* The keys of the mappings of a payload, at every depth.                  *)
RECURSIVE AllKeys(_)
AllKeys(data) ==
    CASE data.t = "dict" ->
            UNION {{data.entries[i].k} \cup AllKeys(data.entries[i].v) :
                      i \in 1..Len(data.entries)}
      [] data.t = "list" ->
            UNION {AllKeys(data.items[i]) : i \in 1..Len(data.items)}
      [] OTHER -> {}

Contains(line, text) ==
    \E i \in 0..(Len(line) - Len(text)) :
       SubSeq(line, i + 1, i + Len(text)) = text

(* C6: flatten_event_data loses no information: every mapping key at every *)
(* depth, also one whose value is an empty string, an empty mapping or an  *)
(* empty list, appears in some output line.                                *)
C6_EveryKeyAppears ==
    Flattened =>
       \A key \in AllKeys(calls[1].data) :
          \E j \in 1..Len(calls[1].ret) : Contains(calls[1].ret[j], key)

(* The source lines of a text: a line ends at a line feed, at a carriage   *)
(* return, or at the two together; a line break at the end of the text     *)
(* opens no further line.                                                  *)
LineEnds(s) ==
    {i \in 1..Len(s) :
        \/ s[i] = NL
        \/ s[i] = CR /\ ~(i < Len(s) /\ s[i + 1] = NL)}

LineStarts(s) ==
    IF Len(s) = 0 THEN {}
    ELSE {1} \cup {e + 1 : e \in {x \in LineEnds(s) : x < Len(s)}}

LineFrom(s, start) ==
    IF {e \in LineEnds(s) : e >= start} = {} THEN SubSeq(s, start, Len(s))
    ELSE Bind(CHOOSE e \in LineEnds(s) :
                 e >= start /\ \A f \in LineEnds(s) : f >= start => e <= f,
              LAMBDA e :
                 IF s[e] = NL /\ e > start /\ s[e - 1] = CR
                 THEN SubSeq(s, start, e - 2)
                 ELSE SubSeq(s, start, e - 1))

SourceLines(s) ==
    [j \in 1..Cardinality(LineStarts(s)) |->
        LineFrom(s, CHOOSE start \in LineStarts(s) :
                       Cardinality({x \in LineStarts(s) : x < start}) = j - 1)]

(* The k lines of a scalar with k source lines: each the prefix and then   *)
(* the source line.                                                        *)
Prefixed(prefix, v) ==
    Bind(SourceLines(PyStr(v)), LAMBDA src :
        [j \in 1..Len(src) |-> prefix \o src[j]])

(* Lines moved 4 columns deeper.                                           *)
Deeper(lines) ==
    [j \in 1..Len(lines) |-> <<" ", " ", " ", " ">> \o lines[j]]

RECURSIVE Concat(_)
Concat(seqs) ==
    IF Len(seqs) = 0 THEN <<>> ELSE seqs[1] \o Concat(Tail(seqs))

(* What the claim says a mapping's entry and a list's item give, at        *)
(* indent 0: the lines of a scalar behind the key prefix or the bullet; a  *)
(* key line or a bullet line and then the nested value 4 columns deeper.   *)
LinesOfEntry(e) ==
    IF IsContainer(e.v)
    THEN <<<<DIAMOND, " ">> \o e.k \o <<" ", ARROW, " ">>>>
         \o Deeper(flatten_event_data(e.v, 0))
    ELSE Prefixed(<<DIAMOND, " ">> \o e.k \o <<" ", ARROW, " ">>, e.v)

LinesOfItem(item) ==
    IF IsContainer(item)
    THEN <<<<BULLET>>>> \o Deeper(flatten_event_data(item, 0))
    ELSE Prefixed(<<BULLET, " ">>, item)

(* C9: a scalar under a mapping key whose string form has k source lines   *)
(* gives exactly k consecutive output lines, in source order, each the     *)
(* indent, the key prefix and that source line; a scalar list item gives k *)
(* lines each behind the indent and the bullet; a nested mapping or list   *)
(* is rendered 4 columns deeper than its key line or bullet line.          *)
C9_LinesOfScalarsAndNesting ==
    Flattened =>
       /\ calls[1].data.t = "dict" =>
             calls[1].ret =
                Concat([i \in 1..Len(calls[1].data.entries) |->
                          LinesOfEntry(calls[1].data.entries[i])])
       /\ calls[1].data.t = "list" =>
             calls[1].ret =
                Concat([i \in 1..Len(calls[1].data.items) |->
                          LinesOfItem(calls[1].data.items[i])])

(* A mapping with a scalar of two source lines and a nested list was       *)
(* flattened to four lines.                                                *)
C9_TwoLinesAndNestedList ==
    /\ Flattened
    /\ calls[1].data =
          Dict(<<Entry(<<"a">>, StrVal(<<"x", NL, "y">>)),
                 Entry(<<"b">>, List(<<IntVal(1)>>))>>)
    /\ Len(calls[1].ret) = 4

---------------------------------------------------------------------------
(* Properties of format_event_box (SpecPure).                              *)

Boxed ==
    pc = "pure" /\ Len(calls) = 1 /\ calls[1].fn = "format_event_box"

(* The length of the widest of the header and the content lines.           *)
WidestLine(event, data) ==
    Bind(<<<<TARGET, " ">> \o event>> \o content_lines(data), LAMBDA ls :
        CHOOSE w \in {Len(ls[i]) : i \in 1..Len(ls)} :
           \A i \in 1..Len(ls) : Len(ls[i]) <= w)

(* The number of top-level keys of a mapping payload, 0 otherwise.         *)
TopLevelKeys(data) == IF data.t = "dict" THEN Len(data.entries) ELSE 0

(* C11: all lines of the box (top border, body lines, bottom border) have  *)
(* the same length, 4 + the length of the widest of the header and the     *)
(* content lines; the fill of the bottom border is never negative; and the *)
(* bottom border shows the number of top-level keys of a mapping payload,  *)
(* 0 otherwise.                                                            *)
C11_BoxLinesSameWidth ==
    Boxed =>
       /\ \A i \in 1..Len(SourceLines(calls[1].ret)) :
             Len(SourceLines(calls[1].ret)[i])
                = 4 + WidestLine(calls[1].event, calls[1].data)
       /\ WidestLine(calls[1].event, calls[1].data) + 2
             >= Len(ItemsText \o IntText(TopLevelKeys(calls[1].data))
                    \o <<" ">>)
       /\ Contains(calls[1].ret,
                   ItemsText \o IntText(TopLevelKeys(calls[1].data))
                   \o <<" ">>)

===========================================================================
